---------------------------- MODULE Spec2Model ----------------------------
(***************************************************************************)
(* A model of the deblurring GAN's loss library (deblurrer/model/losses.py),*)
(* its image-saving callback (deblurrer/model/callbacks.py), the dataset   *)
(* normalisation (scripts/datasets/generate_dataset.py), the dataset       *)
(* download (scripts/datasets/download.py) and the training step of the    *)
(* composite model.                                                        *)
(*                                                                         *)
(* Floating-point tensors are modelled by exact rationals (records         *)
(* [k, n, d]) with the IEEE special value NaN; a tensor is a sequence.     *)
(* The soft-label noise of ragan_ls_loss is an explicit draw in tenths.    *)
(***************************************************************************)
EXTENDS Integers, Sequences, FiniteSets, TLC

VARIABLES
    \* ---- loss library: one evaluation of one loss function
    op,             \* "idle" or the name of the function that was called
    preds,          \* [local, global]: the prediction tensor(s) passed
    real_preds,     \* the real_preds argument as written by the caller
    soft_noise,     \* [local, global]: the uniform draws (tenths) of each call
    gen_images,     \* batch of generated images, one value per sample
    sharp_images,   \* batch of sharp images, one value per sample
    loss_network,   \* the feature network passed
    loss,           \* what the call returned (or that it raised)
    \* ---- the training step of the composite model (DeblurGAN)
    step_pc,        \* the phase of the current training step
    params,         \* the parameters of the three networks
    updates,        \* the parity of each network's number of optimizer steps
    \* ---- dataset normalisation and its inverse in the callback
    pix_pc,         \* "raw", "decoded", "normalized" or "saved"
    raw_pixel,      \* the decoded uint8 value
    norm_pixel,     \* the float32 value after transform, in 1/256
    saved_pixel,    \* the uint8 value save_image encodes
    \* ---- the SaveImageToDisk callback
    cb_pc,          \* "new" before __init__, "constructed" after
    test_image,     \* the argument of __init__: <<sharp, blur>>
    sharp_image,    \* self.sharp_image
    blur_image,     \* self.blur_image
    folder,         \* self.folder, once on_train_begin has set it
    clock,          \* datetime.now(), in seconds
    disk,           \* the files written: a set of [file, data]
    generator,      \* the weights of self.model.generator
    cb_call,        \* the last callback method Keras called
    io_log,         \* the files that call wrote, in order
    \* ---- the dataset download
    fs,             \* what is at each path: absent, a directory, a file
    dl_call,        \* the last call of download and what it did
    short_left,     \* the paths where a call ended on a short transfer
    extracted       \* whether execute has extracted the archive

lossVars == <<op, preds, real_preds, soft_noise, gen_images, sharp_images,
              loss_network, loss>>
trainVars == <<step_pc, params, updates>>
pixVars == <<pix_pc, raw_pixel, norm_pixel, saved_pixel>>
cbVars == <<cb_pc, test_image, sharp_image, blur_image, folder, clock, disk,
            generator, cb_call, io_log>>
dlVars == <<fs, dl_call, short_left, extracted>>

vars == <<lossVars, trainVars, pixVars, cbVars, dlVars>>

notLossVars == <<trainVars, pixVars, cbVars, dlVars>>
notTrainVars == <<lossVars, pixVars, cbVars, dlVars>>
notPixVars == <<lossVars, trainVars, cbVars, dlVars>>
notCbVars == <<lossVars, trainVars, pixVars, dlVars>>
notDlVars == <<lossVars, trainVars, pixVars, cbVars>>

---------------------------------------------------------------------------
(* Bounds of the model *)

\* longest prediction tensor (a local score map)
MaxLen == 2
\* prediction values range over -MaxPred..MaxPred
MaxPred == 1
\* largest image batch
MaxBatch == 2
\* network parameters range over -MaxParam..MaxParam
MaxParam == 2
\* on_epoch_end is called with epochs 0..MaxEpoch
MaxEpoch == 1
\* the clock runs from 0 to MaxClock seconds
MaxClock == 1
\* the callback methods are called at most MaxCalls times
MaxCalls == 3
\* the generator's weights range over 0..MaxWeight
MaxWeight == 2
\* a download is at most MaxSize blocks long
MaxSize == 2

PredVals == (0 - MaxPred)..MaxPred
\* normalised pixel values: the two ends of [-1, 1]
PixVals == {-1, 1}
\* tf.random.uniform(minval=-1.0, maxval=1.0), in steps of one; scaled by 0.1
NoiseVals == {-1, 0, 1}

SeqsUpTo(S, n) == UNION {[1..k -> S] : k \in 1..n}

---------------------------------------------------------------------------
(* Exact arithmetic standing for float32 tensors *)

Abs(x) == IF x < 0 THEN 0 - x ELSE x

RECURSIVE GCD(_, _)
GCD(a, b) == IF b = 0 THEN a ELSE GCD(b, a % b)

\* the rational n/d (d > 0) in lowest terms
Num(n, d) ==
    LET g == GCD(Abs(n), d)
    IN  [k |-> "num", n |-> n \div g, d |-> d \div g]

NaN == [k |-> "nan", n |-> 0, d |-> 1]
Inf == [k |-> "inf", n |-> 1, d |-> 1]
Raised == [k |-> "raise", n |-> 0, d |-> 1]
Zero == Num(0, 1)
IntVal(i) == Num(i, 1)

IsNum(x) == x.k = "num"

Add(x, y) ==
    IF IsNum(x) /\ IsNum(y) THEN Num(x.n * y.d + y.n * x.d, x.d * y.d)
    ELSE IF x.k = "raise" \/ y.k = "raise" THEN Raised
    ELSE IF x.k = "nan" \/ y.k = "nan" THEN NaN
    ELSE Inf

\* w * x for a finite weight w > 0
Mul(w, x) ==
    IF IsNum(x) THEN Num(w.n * x.n, w.d * x.d) ELSE x

RECURSIVE SumInts(_)
SumInts(s) == IF s = <<>> THEN 0 ELSE Head(s) + SumInts(Tail(s))

\* tf.reduce_mean of a tensor whose elements are s[i] / unit: the mean of no
\* element is 0/0 (NaN), and IEEE division by zero gives inf
ReduceMean(s, unit) ==
    IF Len(s) = 0 THEN NaN
    ELSE IF unit = 0 THEN (IF SumInts(s) = 0 THEN NaN ELSE Inf)
    ELSE Num(SumInts(s), unit * Len(s))

---------------------------------------------------------------------------
(* losses.py *)

BoolFlags == {"True", "False"}
\* what a caller may write for real_preds: the two booleans, two numbers that
\* are not booleans, and no value
FlagInputs == BoolFlags \cup {"0.5", "2", "None"}

\* tf.constant(real_preds, dtype=preds.dtype), in halves: a boolean or a
\* number is converted to a float; None is refused by the conversion (-1)
CastFlag(flag) ==
    CASE flag = "True" -> 2
      [] flag = "False" -> 0
      [] flag = "0.5" -> 1
      [] flag = "2" -> 4
      [] OTHER -> -1

\* soft_factor = ones_like(preds) + 0.1 * uniform(-1, 1), one element, in
\* tenths
SoftFactor(u) == 10 + u

\* real_preds * soft_factor * square(preds - 1), one element, in twentieths
FirstSide(r, s, p) == (r * s) * ((p - 1) * (p - 1))

SecondSideSignSlip(r, s, p) == ((r - 2) * s) * ((p + 1) * (p + 1))

\* (1 - real_preds) * soft_factor * square(preds + 1), one element, in
\* twentieths
SecondSide(r, s, p) == ((2 - r) * s) * ((p + 1) * (p + 1))

\* ragan_ls_loss(preds, real_preds) with the uniform draws `noise`
RaganLs(p, flag, noise) ==
    LET r == CastFlag(flag)
    IN  IF r < 0 THEN Raised
        ELSE ReduceMean([i \in 1..Len(p) |->
                            FirstSide(r, SoftFactor(noise[i]), p[i])
                            + SecondSide(r, SoftFactor(noise[i]), p[i])],
                        20)

DiscriminatorLossPooled(pr, flag, noise) ==
    RaganLs(pr.local \o pr.global, flag, noise.local \o noise.global)

\* discriminator_loss(preds, real_preds): each of its two calls draws its own
\* noise
DiscriminatorLoss(pr, flag, noise) ==
    LET loss_l == RaganLs(pr.local, flag, noise.local)
        loss_g == RaganLs(pr.global, flag, noise.global)
    IN  Add(loss_l, loss_g)

\* The feature networks the model passes as loss_network: the output for a
\* batch (one value per sample) is `per` features per sample, flattened.
LossNetworks == {"identity", "dup", "abs", "empty"}

\* loss_network(images, training=False)
FeatureNet(net, images) ==
    CASE net = "identity" -> [per |-> 1, out |-> images]
      [] net = "dup" ->
           [per |-> 2,
            out |-> [i \in 1..(2 * Len(images)) |-> images[(i + 1) \div 2]]]
      [] net = "abs" ->
           [per |-> 1, out |-> [i \in 1..Len(images) |-> Abs(images[i])]]
      [] OTHER -> [per |-> 0, out |-> <<>>]

\* feature_reconstruction_loss(gen_images, sharp_images, loss_network): the
\* squared differences divided by the per-sample element count, then the mean
FeatureReconstructionLoss(gen, sharp, net) ==
    LET gen_output == FeatureNet(net, gen)
        sharp_output == FeatureNet(net, sharp)
    IN  ReduceMean([i \in 1..Len(gen_output.out) |->
                        (gen_output.out[i] - sharp_output.out[i])
                        * (gen_output.out[i] - sharp_output.out[i])],
                   gen_output.per)

\* tf.keras.losses.mean_squared_error (the mean over the last axis, here of
\* one value per sample), then reduce_mean
MeanSquaredError(sharp, gen) ==
    ReduceMean([i \in 1..Len(gen) |->
                    (sharp[i] - gen[i]) * (sharp[i] - gen[i])], 1)

AdversarialFlagFake == "False"

\* the flag generator_loss passes to discriminator_loss
AdversarialFlag == "True"

PixelWeight == Num(1, 2)
PerceptualWeight == Num(6, 1000)
AdversarialWeight == Num(1, 100)

\* generator_loss(gen_images, sharp_images, fake_pred, loss_network)
GeneratorLoss(gen, sharp, fake_pred, net, noise) ==
    LET lp == MeanSquaredError(sharp, gen)
        lx == FeatureReconstructionLoss(gen, sharp, net)
        ladv == DiscriminatorLoss(fake_pred, AdversarialFlag, noise)
    IN  Add(Add(Mul(PixelWeight, lp), Mul(PerceptualWeight, lx)),
            Mul(AdversarialWeight, ladv))

---------------------------------------------------------------------------
(* One evaluation of a loss function: the caller picks the arguments, the  *)
(* random source picks the noise, the function returns.                     *)

NoTensor == <<>>
NoPair == [local |-> NoTensor, global |-> NoTensor]

LossInit ==
    /\ op = "idle"
    /\ preds = NoPair
    /\ real_preds = "True"
    /\ soft_noise = NoPair
    /\ gen_images = NoTensor
    /\ sharp_images = NoTensor
    /\ loss_network = "identity"
    /\ loss = Zero

CallRaganLs ==
    /\ op = "idle"
    /\ \E p \in SeqsUpTo(PredVals, MaxLen), flag \in FlagInputs :
         \E noise \in [1..Len(p) -> NoiseVals] :
            /\ op' = "ragan_ls_loss"
            /\ preds' = [local |-> p, global |-> NoTensor]
            /\ real_preds' = flag
            /\ soft_noise' = [local |-> noise, global |-> NoTensor]
            /\ loss' = RaganLs(p, flag, noise)
    /\ UNCHANGED <<gen_images, sharp_images, loss_network>>
    /\ UNCHANGED notLossVars

\* the local scores are a map of up to MaxLen patches, the global score is
\* one per image
CallDiscriminatorLoss ==
    /\ op = "idle"
    /\ \E l \in SeqsUpTo(PredVals, MaxLen), g \in [1..1 -> PredVals],
          flag \in FlagInputs :
         \E nl \in [1..Len(l) -> NoiseVals], ng \in [1..1 -> NoiseVals] :
            /\ op' = "discriminator_loss"
            /\ preds' = [local |-> l, global |-> g]
            /\ real_preds' = flag
            /\ soft_noise' = [local |-> nl, global |-> ng]
            /\ loss' = DiscriminatorLoss(preds', flag, soft_noise')
    /\ UNCHANGED <<gen_images, sharp_images, loss_network>>
    /\ UNCHANGED notLossVars

CallFeatureReconstructionLoss ==
    /\ op = "idle"
    /\ \E gen \in SeqsUpTo(PixVals, MaxBatch), net \in LossNetworks :
         \E sharp \in [1..Len(gen) -> PixVals] :
            /\ op' = "feature_reconstruction_loss"
            /\ gen_images' = gen
            /\ sharp_images' = sharp
            /\ loss_network' = net
            /\ loss' = FeatureReconstructionLoss(gen, sharp, net)
    /\ UNCHANGED <<preds, real_preds, soft_noise>>
    /\ UNCHANGED notLossVars

CallGeneratorLoss ==
    /\ op = "idle"
    /\ \E gen \in SeqsUpTo(PixVals, MaxBatch), net \in LossNetworks,
          l \in [1..1 -> PredVals], g \in [1..1 -> PredVals] :
         \E sharp \in [1..Len(gen) -> PixVals],
            nl \in [1..1 -> NoiseVals], ng \in [1..1 -> NoiseVals] :
            /\ op' = "generator_loss"
            /\ gen_images' = gen
            /\ sharp_images' = sharp
            /\ loss_network' = net
            /\ preds' = [local |-> l, global |-> g]
            /\ soft_noise' = [local |-> nl, global |-> ng]
            /\ loss' = GeneratorLoss(gen, sharp, preds', net, soft_noise')
    /\ UNCHANGED real_preds
    /\ UNCHANGED notLossVars

LossNext ==
    \/ CallRaganLs
    \/ CallDiscriminatorLoss
    \/ CallFeatureReconstructionLoss
    \/ CallGeneratorLoss

---------------------------------------------------------------------------
(* The training step of the composite model: five phases in a fixed order, *)
(* each network's parameters a number, each gradient an opaque step.       *)

Networks == {"generator", "discriminator", "feature"}
Gradients == {-1, 0, 1}

TrainInit ==
    /\ step_pc = "generate"
    /\ params = [n \in Networks |-> 0]
    /\ updates = [n \in Networks |-> 0]

DiscriminatorUpdateTargetsShared == {"discriminator", "generator"}

\* the parameters the discriminator's gradient is taken for and applied to
DiscriminatorUpdateTargets == {"discriminator"}

\* the parameters the generator's gradient is taken for and applied to
GeneratorUpdateTargets == {"generator"}

\* one optimizer step on the networks in `targets`
ApplyGradients(targets, grad) ==
    /\ \A n \in targets : Abs(params[n] - grad) <= MaxParam
    /\ params' = [n \in Networks |->
                    IF n \in targets THEN params[n] - grad ELSE params[n]]
    /\ updates' = [n \in Networks |->
                     IF n \in targets THEN (updates[n] + 1) % 2
                     ELSE updates[n]]

Generate ==
    /\ step_pc = "generate"
    /\ step_pc' = "discriminate_real"
    /\ UNCHANGED <<params, updates>>
    /\ UNCHANGED notTrainVars

DiscriminateReal ==
    /\ step_pc = "discriminate_real"
    /\ step_pc' = "discriminate_fake"
    /\ UNCHANGED <<params, updates>>
    /\ UNCHANGED notTrainVars

DiscriminateFake ==
    /\ step_pc = "discriminate_fake"
    /\ step_pc' = "discriminator_update"
    /\ UNCHANGED <<params, updates>>
    /\ UNCHANGED notTrainVars

DiscriminatorUpdate ==
    /\ step_pc = "discriminator_update"
    /\ \E grad \in Gradients : ApplyGradients(DiscriminatorUpdateTargets, grad)
    /\ step_pc' = "generator_update"
    /\ UNCHANGED notTrainVars

GeneratorUpdate ==
    /\ step_pc = "generator_update"
    /\ \E grad \in Gradients : ApplyGradients(GeneratorUpdateTargets, grad)
    /\ step_pc' = "generate"
    /\ UNCHANGED notTrainVars

TrainNext ==
    \/ Generate
    \/ DiscriminateReal
    \/ DiscriminateFake
    \/ DiscriminatorUpdate
    \/ GeneratorUpdate

---------------------------------------------------------------------------
(* Pixel values: the dataset's transform and the callback's save_image;    *)
(* float32 values are exact multiples of 1/256 here.                        *)

PixInit ==
    /\ pix_pc = "raw"
    /\ raw_pixel = 0
    /\ norm_pixel = 0
    /\ saved_pixel = 0

NormalizeHalfway(v) == ((2 * v - 255) * 256) \div 255

\* images = (cast(images, float32) - 127.0) / 128.0, in 1/256
Normalize(v) == ((v - 127) * 256) \div 128

\* image = (image * 128) + 127, in 1/256
Denormalize(x) == (x * 128) + (127 * 256)

\* a float (in 1/256) rounded toward zero
Truncate(x) == IF x >= 0 THEN x \div 256 ELSE 0 - ((0 - x) \div 256)

\* tf.cast(image, dtype=tf.uint8): truncation; a value outside 0..255 has no
\* defined result, the build either wraps or saturates it
CastUint8(x) ==
    LET t == Truncate(x)
    IN  IF t >= 0 /\ t <= 255 THEN {t}
        ELSE {t % 256, IF t < 0 THEN 0 ELSE 255}

\* parse: tf.io.decode_image yields uint8 values
Decode ==
    /\ pix_pc = "raw"
    /\ \E v \in 0..255 : raw_pixel' = v
    /\ pix_pc' = "decoded"
    /\ UNCHANGED <<norm_pixel, saved_pixel>>
    /\ UNCHANGED notPixVars

Transform ==
    /\ pix_pc = "decoded"
    /\ norm_pixel' = Normalize(raw_pixel)
    /\ pix_pc' = "normalized"
    /\ UNCHANGED <<raw_pixel, saved_pixel>>
    /\ UNCHANGED notPixVars

SavePixel ==
    /\ pix_pc = "normalized"
    /\ \E out \in CastUint8(Denormalize(norm_pixel)) : saved_pixel' = out
    /\ pix_pc' = "saved"
    /\ UNCHANGED <<raw_pixel, norm_pixel>>
    /\ UNCHANGED notPixVars

PixNext ==
    \/ Decode
    \/ Transform
    \/ SavePixel

---------------------------------------------------------------------------
(* callbacks.py: SaveImageToDisk.  The conversions are pixelwise, so an    *)
(* image is given by the value of its pixels; a file name                   *)
(* '{path}/{name}.jpg' is the pair <<path, name>>.                          *)

NoFolder == [set |-> FALSE, path |-> "", stamp |-> 0]
NoCall == [seq |-> 0, name |-> "none", epoch |-> 0, raised |-> FALSE]

\* the test images the model constructs the callback with: what transform
\* makes of the darkest and of the brightest pixel
TestPixels == {Normalize(0), Normalize(255)}

CbInit ==
    /\ cb_pc = "new"
    /\ test_image = <<0, 0>>
    /\ sharp_image = 0
    /\ blur_image = 0
    /\ folder = NoFolder
    /\ clock = 0
    /\ disk = {}
    /\ generator = 0
    /\ cb_call = NoCall
    /\ io_log = <<>>

\* the generator as a function of its weights and its input, with outputs in
\* [-1, 1]
Generator(w, x) ==
    LET y == x - w
    IN  IF y < -256 THEN -256 ELSE IF y > 256 THEN 256 ELSE y

\* tf.io.encode_jpeg
EncodeJpeg(pixel) == [format |-> "jpeg", pixel |-> pixel]

\* '{path}/{datetime}.jpg' of on_train_begin
SessionFolder(path, now) == [set |-> TRUE, path |-> path, stamp |-> now]

\* '{path}/{name}.jpg' of save_image
FileName(dir, name) == <<dir, name>>

\* tf.io.write_file: the file is created or replaced
WriteFile(d, file, data) ==
    {f \in d : f.file # file} \cup {[file |-> file, data |-> data]}

SaveNameEpoch(epoch) == ToString(epoch)

\* the name on_epoch_end gives its image: epoch + 1
SaveName(epoch) == ToString(epoch + 1)

\* the image on_epoch_end feeds the generator
EpochInput == blur_image

NextCall(name, epoch, raised) ==
    [seq |-> cb_call.seq + 1, name |-> name, epoch |-> epoch,
     raised |-> raised]

\* __init__(path, test_image): sharp_image, blur_image = tf.split(test_image, 2)
Construct ==
    /\ cb_pc = "new"
    /\ \E sharp \in TestPixels, blur \in TestPixels :
         /\ test_image' = <<sharp, blur>>
         /\ sharp_image' = sharp
         /\ blur_image' = blur
    /\ cb_pc' = "constructed"
    /\ UNCHANGED <<folder, clock, disk, generator, cb_call, io_log>>
    /\ UNCHANGED notCbVars

\* on_train_begin: sets self.folder, saves the sharp and the blur image
OnTrainBegin ==
    /\ cb_pc = "constructed"
    /\ cb_call.seq < MaxCalls
    /\ LET dir == SessionFolder("results", clock)
       IN  /\ folder' = dir
           /\ \E s \in CastUint8(Denormalize(sharp_image)),
                 b \in CastUint8(Denormalize(blur_image)) :
                disk' = WriteFile(
                            WriteFile(disk, FileName(dir, "sharp"),
                                      EncodeJpeg(s)),
                            FileName(dir, "blur"), EncodeJpeg(b))
           /\ io_log' = <<FileName(dir, "sharp"), FileName(dir, "blur")>>
    /\ cb_call' = NextCall("on_train_begin", 0, FALSE)
    /\ UNCHANGED <<cb_pc, test_image, sharp_image, blur_image, clock,
                   generator>>
    /\ UNCHANGED notCbVars

\* on_epoch_end(epoch): runs the generator on the blur image and saves the
\* result as epoch + 1; without self.folder save_image raises
OnEpochEnd ==
    /\ cb_pc = "constructed"
    /\ cb_call.seq < MaxCalls
    /\ \E epoch \in 0..MaxEpoch :
         IF folder.set
         THEN LET image == Generator(generator, EpochInput)
                  file == FileName(folder, SaveName(epoch))
              IN  /\ \E out \in CastUint8(Denormalize(image)) :
                        disk' = WriteFile(disk, file, EncodeJpeg(out))
                  /\ io_log' = <<file>>
                  /\ cb_call' = NextCall("on_epoch_end", epoch, FALSE)
         ELSE /\ cb_call' = NextCall("on_epoch_end", epoch, TRUE)
              /\ io_log' = <<>>
              /\ UNCHANGED disk
    /\ UNCHANGED <<cb_pc, test_image, sharp_image, blur_image, folder, clock,
                   generator>>
    /\ UNCHANGED notCbVars

\* between two epoch ends the training loop moves the generator's weights
TrainEpoch ==
    /\ cb_pc = "constructed"
    /\ \E w \in 0..MaxWeight : w # generator /\ generator' = w
    /\ UNCHANGED <<cb_pc, test_image, sharp_image, blur_image, folder, clock,
                   disk, cb_call, io_log>>
    /\ UNCHANGED notCbVars

\* a second passes
Tick ==
    /\ clock < MaxClock
    /\ clock' = clock + 1
    /\ UNCHANGED <<cb_pc, test_image, sharp_image, blur_image, folder, disk,
                   generator, cb_call, io_log>>
    /\ UNCHANGED notCbVars

CbNext ==
    \/ Construct
    \/ OnTrainBegin
    \/ OnEpochEnd
    \/ TrainEpoch
    \/ Tick

---------------------------------------------------------------------------
(* download.py: sizes are counted in blocks *)

DlPaths == {"blur.zip", "other.zip"}

Absent == [kind |-> "absent", size |-> 0]
NoDownload ==
    [made |-> FALSE, path |-> "", existed |-> FALSE, attempted |-> FALSE,
     total |-> 0, written |-> 0, ret |-> "none", after_short |-> FALSE]

DlInit ==
    /\ fs = [p \in DlPaths |-> Absent]
    /\ dl_call = NoDownload
    /\ short_left = [p \in DlPaths |-> FALSE]
    /\ extracted = FALSE

\* os.path.exists(download_path) and os.path.isfile(download_path)
IsFile(p) == fs[p].kind = "file"

\* what download returns once the stream is closed: False on a declared
\* length the bytes written do not match
TransferResult(total, n) ==
    IF total # 0 /\ n # total THEN "False" ELSE "True"

\* download(source_url, download_path), with the server declaring `total`
\* blocks (0: no content-length) and delivering n
DownloadBody(p, total, n) ==
    IF IsFile(p)
    THEN /\ dl_call' = [made |-> TRUE, path |-> p, existed |-> TRUE,
                        attempted |-> FALSE, total |-> 0, written |-> 0,
                        ret |-> "False", after_short |-> short_left[p]]
         /\ UNCHANGED <<fs, short_left>>
    ELSE IF fs[p].kind = "dir"
    THEN \* open(download_path, 'wb') raises IsADirectoryError
         /\ dl_call' = [made |-> TRUE, path |-> p, existed |-> FALSE,
                        attempted |-> TRUE, total |-> total, written |-> 0,
                        ret |-> "raise", after_short |-> short_left[p]]
         /\ UNCHANGED <<fs, short_left>>
    ELSE /\ fs' = [fs EXCEPT ![p] = [kind |-> "file", size |-> n]]
         /\ dl_call' = [made |-> TRUE, path |-> p, existed |-> FALSE,
                        attempted |-> TRUE, total |-> total, written |-> n,
                        ret |-> TransferResult(total, n),
                        after_short |-> short_left[p]]
         /\ short_left' = [short_left EXCEPT
                              ![p] = (TransferResult(total, n) = "False")]

\* what the server may declare and deliver
Transfers ==
    {t \in [total : 0..MaxSize, n : 0..MaxSize] : t.total # 0 => t.n <= t.total}

Download ==
    /\ \E p \in DlPaths, t \in Transfers : DownloadBody(p, t.total, t.n)
    /\ UNCHANGED extracted
    /\ UNCHANGED notDlVars

\* execute(): downloads blur.zip and extracts it when download returned True
Execute ==
    /\ \E t \in Transfers : DownloadBody("blur.zip", t.total, t.n)
    /\ extracted' = (extracted \/ dl_call'.ret = "True")
    /\ UNCHANGED notDlVars

\* somebody makes a directory where nothing was
MakeDirectory ==
    /\ \E p \in DlPaths :
         /\ fs[p].kind = "absent"
         /\ fs' = [fs EXCEPT ![p] = [kind |-> "dir", size |-> 0]]
    /\ UNCHANGED <<dl_call, short_left, extracted>>
    /\ UNCHANGED notDlVars

DlNext ==
    \/ Download
    \/ Execute
    \/ MakeDirectory

---------------------------------------------------------------------------
(* Specifications: one per component, the others at rest *)

Init == LossInit /\ TrainInit /\ PixInit /\ CbInit /\ DlInit

SpecLoss == Init /\ [][LossNext]_vars

SpecTrain == Init /\ [][TrainNext]_vars

SpecPixel == Init /\ [][PixNext]_vars

SpecCallback == Init /\ [][CbNext]_vars

SpecDownload == Init /\ [][DlNext]_vars

---------------------------------------------------------------------------
(* Properties of the loss library *)

IsBoolCall == real_preds \in BoolFlags

C2_SumOfScales ==
    (op = "discriminator_loss" /\ IsBoolCall) =>
        loss = Add(RaganLs(preds.local, real_preds, soft_noise.local),
                   RaganLs(preds.global, real_preds, soft_noise.global))

\* a local map of two scores and one global score, both off their target
C2_Witness ==
    /\ op = "discriminator_loss"
    /\ real_preds = "False"
    /\ Len(preds.local) = 2
    /\ preds.local[1] # preds.local[2]
    /\ preds.global[1] # -1
    /\ IsNum(loss)
    /\ loss.n > 0

\* the real-branch term alone, soft_factor * (p - 1)^2, averaged
RealBranchMean(p, noise) ==
    ReduceMean([i \in 1..Len(p) |->
                    2 * (10 + noise[i]) * ((p[i] - 1) * (p[i] - 1))], 20)

\* C3: generator_loss = 0.5*Lp + 0.006*Lx + 0.01*Ladv with Lp the mean
\* squared error of the images, Lx the feature reconstruction loss and Ladv
\* the real-branch terms of the fake predictions (local plus global).
C3_Decomposition ==
    (op = "generator_loss") =>
        LET Lp == Num(SumInts([i \in 1..Len(gen_images) |->
                        (gen_images[i] - sharp_images[i])
                        * (gen_images[i] - sharp_images[i])]),
                      Len(gen_images))
            Lx == FeatureReconstructionLoss(gen_images, sharp_images,
                                            loss_network)
            Ladv == Add(RealBranchMean(preds.local, soft_noise.local),
                        RealBranchMean(preds.global, soft_noise.global))
        IN  loss = Add(Add(Mul(Num(500, 1000), Lp), Mul(Num(6, 1000), Lx)),
                       Mul(Num(10, 1000), Ladv))

\* the worked example: Lp = 2.0, Lx = 1.0, Ladv = 4.0 give 1.046
C3_Witness ==
    /\ op = "generator_loss"
    /\ MeanSquaredError(sharp_images, gen_images) = IntVal(2)
    /\ FeatureReconstructionLoss(gen_images, sharp_images, loss_network)
         = IntVal(1)
    /\ DiscriminatorLoss(preds, "True", soft_noise) = IntVal(4)
    /\ loss = Num(1046, 1000)

\* C4: feature_reconstruction_loss(x, x, net) = 0 for any network and any x.
C4_IdenticalIsZero ==
    (op = "feature_reconstruction_loss" /\ gen_images = sharp_images) =>
        loss = Zero

\* C6: a call of ragan_ls_loss or discriminator_loss with a real_preds that
\* is not a boolean fails instead of returning a loss.
C6_NonBooleanFails ==
    (op \in {"ragan_ls_loss", "discriminator_loss"} /\ ~IsBoolCall) =>
        loss.k = "raise"

\* C7: with a feature network whose output has no element per sample,
\* feature_reconstruction_loss and generator_loss fail and return no value.
C7_DegenerateFails ==
    (/\ op \in {"feature_reconstruction_loss", "generator_loss"}
     /\ FeatureNet(loss_network, gen_images).per = 0) =>
        loss.k = "raise"

---------------------------------------------------------------------------
(* Properties of the training step *)

\* C5: the discriminator update changes only Discriminator parameters, the
\* generator update only Generator parameters, the discriminator update of a
\* step comes before its generator update, and Feature Network parameters
\* never change.
C5_GradientIsolation ==
    [][/\ params'["feature"] = params["feature"]
       /\ (params'["discriminator"] # params["discriminator"]) =>
            (/\ step_pc = "discriminator_update"
             /\ params'["generator"] = params["generator"]
             /\ updates["generator"] = updates["discriminator"])
       /\ (params'["generator"] # params["generator"]) =>
            (/\ step_pc = "generator_update"
             /\ params'["discriminator"] = params["discriminator"]
             /\ updates["generator"] # updates["discriminator"])
       /\ (step_pc = "discriminator_update" /\ step_pc' # step_pc) =>
            updates'["generator"] = updates["generator"]
       /\ (step_pc = "generator_update" /\ step_pc' # step_pc) =>
            updates'["discriminator"] = updates["discriminator"]]_vars

\* a step has completed and both networks have moved, in opposite directions
C5_Witness ==
    /\ step_pc = "generate"
    /\ params["generator"] > 0
    /\ params["discriminator"] < 0
    /\ params["feature"] = 0

---------------------------------------------------------------------------
(* Properties of the pixel conversions *)

\* C10: for every v in 0..255, transform's (v - 127) / 128 followed by
\* save_image's (x * 128) + 127 and the cast to uint8 gives v back, and every
\* normalised value lies in [-1, 1].
C10_RoundTrip ==
    /\ (pix_pc \in {"normalized", "saved"}) =>
          (norm_pixel >= -256 /\ norm_pixel <= 256)
    /\ (pix_pc = "saved") => (saved_pixel = raw_pixel)

\* the brightest pixel, normalised to exactly 1, has been saved
C10_Witness ==
    /\ pix_pc = "saved"
    /\ raw_pixel = 255
    /\ norm_pixel = 256

---------------------------------------------------------------------------
(* Properties of the callback *)

\* C8: once on_train_begin has set the session folder, every on_epoch_end
\* call writes exactly one file, named epoch + 1 under that folder, holding
\* the generator's output for the blur image given at construction; the
\* stored images, the folder and the generator are left as they were.
C8_EpochEndRendersOne ==
    [][(/\ cb_call'.seq # cb_call.seq
        /\ cb_call'.name = "on_epoch_end"
        /\ folder.set) =>
         LET file == <<folder, ToString(cb_call'.epoch + 1)>>
         IN  /\ ~cb_call'.raised
             /\ io_log' = <<file>>
             /\ \E out \in CastUint8(Denormalize(
                              Generator(generator, test_image[2]))) :
                   disk' = {f \in disk : f.file # file}
                           \cup {[file |-> file, data |-> EncodeJpeg(out)]}
             /\ folder' = folder
             /\ sharp_image' = sharp_image /\ sharp_image = test_image[1]
             /\ blur_image' = blur_image /\ blur_image = test_image[2]
             /\ generator' = generator]_vars

\* the second epoch of a session has been rendered by a trained generator,
\* next to the first
C8_Witness ==
    /\ cb_call.name = "on_epoch_end"
    /\ cb_call.epoch = 1
    /\ ~cb_call.raised
    /\ generator # 0
    /\ io_log = <<(<<folder, "2">>)>>
    /\ \E f \in disk : f.file = <<folder, "1">>

---------------------------------------------------------------------------
(* Properties of the download *)

===========================================================================
